---- MODULE Spec2Model ----
(***************************************************************************)
(* A model of the liked-songs synchroniser: app/spotify.py (reconcile,     *)
(* delete-last-N, undo), app/database.py (the deletion ledger) and         *)
(* app/main.py (the handlers and the scheduled sync_job), run against a    *)
(* model of the remote catalog service.                                    *)
(*                                                                         *)
(* Track ids are the naturals 1..n; 0 stands for a listing item that has   *)
(* no resolvable track (item['track'] is None or has no id).  A track's    *)
(* uri is the pair <<"spotify:track", id>>.                                *)
(***************************************************************************)
EXTENDS Integers, Sequences, FiniteSets, TLC

\* ---------------------------------------------------------------- bounds
\* Track ids of the exhaustively enumerated inputs are 1..MaxTrack.
MaxTrack == 2
\* Longest exhaustively enumerated initial playlist.
MaxLen == 2
\* The long inputs span up to MaxChunks chunks.
MaxChunks == 3
\* Reconcile runs per behaviour.
MaxRuns == 2
\* Delete-last-N and undo invocations per behaviour.
MaxOps == 2
\* Failures (a remote call that fails, a store that cannot be reached or
\* raises) per behaviour of delete-last-N and undo.
MaxFaults == 1
\* Pages of a paginated listing.
MaxPages == 3

\* ------------------------------------------------------ program constants
\* spotify.py:75 and :85, the chunk size of _remove_tracks and _add_tracks;
\* it is the per-call ceiling of the remote service.
ChunkSize == 100
\* spotify.py:20, sp.user_playlists(user_id) reads one listing page.
PlaylistsPage == 50
\* main.py:114, sp.current_user_saved_tracks(limit=50) reads one page.
LikedPage == 50
\* main.py:118, sp.playlist_items(playlist_id, ...) reads one page.
ItemsPage == 100
\* main.py:67, the log entries add_log keeps.
LogsKept == 50

TARGET_PLAYLIST_NAME == "Liked Songs Sync"
OtherName == "other"
NoTrack == 0
NoPlaylist == 0
NoBatch == 0
\* main.py:47, token_info None and job None
NoToken == 0
\* main.py:217, the token_info of the login; main.py:82, of a refresh
LoginToken == 1
RefreshedToken == 2
NoJob == "none"
NoUser == "nobody"

VARIABLES
  \* the remote service
  likedLib,     \* the user's saved-tracks listing: a sequence of items
  listing,      \* the user's playlists in listing order: [id, name] records
  contents,     \* playlist id -> the playlist's items, head first
  \* the invocation in progress
  op,           \* "none", "sync", "delete", "undo"
  pc,           \* the invocation's position
  playlist_id,  \* run_sync_logic's playlist_id (NoPlaylist: None)
  liked_tracks, \* the dict id -> uri, as a sequence of <<id, uri>> in key order
  playlist_track_ids,
  tracks_to_add_uris,
  tracks_to_remove_ids,
  queue,        \* the chunks the running loop has still to send
  calls,        \* the remote calls the invocation has issued, oldest first
  logs,         \* the invocation's log list, newest first
  err,          \* the invocation took an except branch or halted
  synced_count,
  \* the caller's view
  ignored,      \* the ignored set the caller of reconcile holds
  runs,         \* invocations completed
  prevClean,    \* the previous invocation was a reconcile that ended without failure
  before,       \* contents when the invocation started
  base,         \* the target playlist when _add_tracks was entered
  \* the deletion ledger (database.py) and delete-last-N / undo
  ledger,       \* the rows of deleted_songs, in insertion order
  now,          \* the store's clock: CURRENT_TIMESTAMP of the last transaction
  issued,       \* how many batch ids uuid4() has handed out
  num_to_delete,
  playlist_tracks,
  tracks_to_delete,
  batch_id,
  songs_to_restore,
  success,      \* the "success" of the returned dict
  count,        \* its deleted_count or restored_count (0: absent)
  hist,         \* the delete and undo invocations, the running one last
  opsLeft,      \* delete and undo invocations the behaviour may still start
  faultsLeft,   \* failures the environment may still inject into them
  txn,          \* the rows the open transaction has inserted and not committed
  \* two reconcile invocations at once
  parked,       \* the locals of the invocation that is not the one running
  origin,       \* contents when the behaviour began
  \* a paginated listing and the loop that drains it
  pages,        \* the pages the remote serves, each a sequence of items
  results,      \* the page the loop holds, by its number (0: None)
  fetched,      \* how many times each page has been requested
  \* the web application (main.py)
  sync_status,        \* is_running, playlist_id, synced_count, logs
  active_sync_state,  \* token_info, user_id, job
  scheduler     \* the registered job ids; a run submitted and not begun; up

remoteVars == <<likedLib, listing, contents>>
syncVars == <<playlist_id, liked_tracks, playlist_track_ids, tracks_to_add_uris,
              tracks_to_remove_ids, queue, synced_count>>
callerVars == <<ignored, runs, prevClean, before, base>>
vars == <<likedLib, listing, contents, op, pc, playlist_id, liked_tracks,
          playlist_track_ids, tracks_to_add_uris, tracks_to_remove_ids, queue,
          calls, logs, err, synced_count, ignored, runs, prevClean, before,
          base, ledger, now, issued, num_to_delete, playlist_tracks,
          tracks_to_delete, batch_id, songs_to_restore, success, count, hist,
          opsLeft, faultsLeft, txn, parked, origin, pages, results, fetched,
          sync_status, active_sync_state, scheduler>>
collectVars == <<pages, results, fetched>>
mainVars == <<sync_status, active_sync_state, scheduler>>
\* What only the interleaving of two invocations changes.
asideVars == <<parked, origin>>
undoVars == <<ledger, now, issued, num_to_delete, playlist_tracks,
              tracks_to_delete, batch_id, songs_to_restore, success, count, hist,
              opsLeft, faultsLeft, txn, asideVars, collectVars, mainVars>>

\* ------------------------------------------------------------- sequences
Min(a, b) == IF a < b THEN a ELSE b

Range(a, b) == [i \in 1..(b - a + 1) |-> a + i - 1]

Reverse(s) == [i \in 1..Len(s) |-> s[Len(s) + 1 - i]]

ToSet(s) == {s[i] : i \in 1..Len(s)}

SeqsUpTo(S, n) == UNION {[1..k -> S] : k \in 0..n}

IsDistinct(s) == \A i, j \in 1..Len(s) : i /= j => s[i] /= s[j]

DistinctSeqs(S, n) == {s \in SeqsUpTo(S, n) : IsDistinct(s)}

\* No track id of the model is above TopId.
TopId == 2 * MaxChunks * ChunkSize

\* The elements of a set of track ids, smallest first.
Ascending(S) == SelectSeq(Range(1, TopId), LAMBDA x : x \in S)

\* The orders in which list(S) may come out: hash order is not fixed.  Every
\* order of a small set; of a long one, the ascending and the descending.
Orders(S) ==
  IF Cardinality(S) <= MaxTrack
  THEN {s \in [1..Cardinality(S) -> S] : ToSet(s) = S}
  ELSE {Ascending(S), Reverse(Ascending(S))}

\* Python's s[i:j] for 0 <= i <= j.
Slice(s, i, j) == SubSeq(s, i + 1, Min(j, Len(s)))

\* Python's range(0, n, step) as a sequence.
RECURSIVE RangeFrom(_, _, _)
RangeFrom(i, n, step) ==
  IF i < n THEN <<i>> \o RangeFrom(i + step, n, step) ELSE <<>>

\* ------------------------------------------------------------ the remote
Uri(t) == <<"spotify:track", t>>
TrackOf(u) == u[2]

\* The service refuses a mutation call that carries more than its ceiling.
Accepts(items) == Len(items) <= ChunkSize

\* playlist_add_items(playlist_id, uris, position=0)
InsertAtHead(items, uris) == [i \in 1..Len(uris) |-> TrackOf(uris[i])] \o items

\* playlist_add_items(playlist_id, uris)
Append_(items, uris) == items \o [i \in 1..Len(uris) |-> TrackOf(uris[i])]

\* playlist_remove_all_occurrences_of_items(playlist_id, ids)
RemoveAll(items, ids) ==
  LET gone == ToSet(ids)
  IN  SelectSeq(items, LAMBDA x : x \notin gone)

\* The page sp.user_playlists(user_id) returns.
FirstPage(l) == SubSeq(l, 1, Min(PlaylistsPage, Len(l)))

FreshId == 1 + Cardinality(DOMAIN contents)

Call(name, pid, items) == [name |-> name, pid |-> pid, items |-> items]

\* --------------------------------------------------- spotify.py helpers
\* add_log: log_list.insert(0, message)
add_log(l, message) == <<message>> \o l

\* The match loop of _find_or_create_playlist: the first item of the page
\* whose name is the target's, or None.
RECURSIVE FindByName(_)
FindByName(page) ==
  IF page = <<>> THEN NoPlaylist
  ELSE IF Head(page).name = TARGET_PLAYLIST_NAME THEN Head(page).id
  ELSE FindByName(Tail(page))

\* _get_all_liked_tracks: every page drained, items without a track skipped.
\* liked_tracks[id] = uri keeps a key at the place of its first insertion, and
\* every item of one id carries the same uri: the dict is the first
\* occurrences, in listing order.
CollectLiked(items) ==
  LET first == SelectSeq(Range(1, Len(items)),
                 LAMBDA i : /\ items[i] /= NoTrack
                            /\ \A j \in 1..(i - 1) : items[j] /= items[i])
  IN  [k \in 1..Len(first) |-> <<items[first[k]], Uri(items[first[k]])>>]

\* _get_all_playlist_tracks: every page drained into a set of ids.
CollectIds(items) == {x \in ToSet(items) : x /= NoTrack}

Keys(d) == {d[i][1] : i \in 1..Len(d)}

\* Line 123 without its "not in playlist_track_ids" filter.
ToAddUrisUnfiltered(d, ids) == [i \in 1..Len(d) |-> d[i][2]]

\* spotify.py:123
ToAddUris(d, ids) ==
  LET kept == SelectSeq(d, LAMBDA kv : kv[1] \notin ids)
  IN  [i \in 1..Len(kept) |-> kept[i][2]]

\* Line 124 with the difference taken the other way round.
ToRemoveIdsReversed(d, ids) == Keys(d) \ ids

\* spotify.py:124, before list() fixes an order
ToRemoveIds(d, ids) == ids \ Keys(d)

\* The chunking with slices one short of the step: every hundredth element
\* is left out, and the slices are 99 long.
ChunksOffByOne(s) ==
  LET starts == RangeFrom(0, Len(s), ChunkSize)
  IN  [k \in 1..Len(starts) |-> Slice(s, starts[k], starts[k] + ChunkSize - 1)]

\* [s[i:i + 100] for i in range(0, len(s), 100)]
Chunks(s) ==
  LET starts == RangeFrom(0, Len(s), ChunkSize)
  IN  [k \in 1..Len(starts) |-> Slice(s, starts[k], starts[k] + ChunkSize)]

\* The chunks sent first to last.
AddOrderForward(s) == Chunks(s)

\* for chunk in reversed(chunks)
AddOrder(s) == Reverse(Chunks(s))

\* ------------------------------------------------------------- reconcile
\* run_sync_logic, lines 100-108
SyncStart ==
  /\ UNCHANGED undoVars
  /\ pc \in {"idle", "done"}
  /\ runs < MaxRuns
  /\ op' = "sync"
  /\ pc' = "find"
  /\ playlist_id' = NoPlaylist
  /\ liked_tracks' = <<>>
  /\ playlist_track_ids' = {}
  /\ tracks_to_add_uris' = <<>>
  /\ tracks_to_remove_ids' = <<>>
  /\ queue' = <<>>
  /\ calls' = <<>>
  /\ logs' = add_log(<<>>, "sync started")
  /\ err' = FALSE
  /\ synced_count' = 0
  /\ prevClean' = (pc = "done" /\ op = "sync" /\ ~err)
  /\ before' = contents
  /\ base' = <<>>
  /\ UNCHANGED <<remoteVars, ignored, runs>>

\* An except branch that passes: nothing is logged.
RaiseUnlogged(message) ==
  /\ logs' = logs
  /\ err' = TRUE
  /\ pc' = "done"
  /\ runs' = runs + 1

\* An except branch that logs and lets the loop go on.
RaiseAndGoOn(message) ==
  /\ logs' = add_log(logs, message)
  /\ err' = TRUE
  /\ pc' = pc
  /\ runs' = runs

\* The except branches of run_sync_logic (lines 134-137) and its return.
Raise(message) ==
  /\ logs' = add_log(logs, message)
  /\ err' = TRUE
  /\ pc' = "done"
  /\ runs' = runs + 1

\* run_sync_logic with line 119 left out: the fetch of the playlist follows
\* the lookup.
AfterFindItems == "items"

\* run_sync_logic, lines 111-119: the fetch of the liked tracks follows
\* _find_or_create_playlist.
AfterFind == "liked"

\* _find_or_create_playlist, lines 18-25
SyncFind ==
  /\ UNCHANGED undoVars
  /\ op = "sync" /\ pc = "find"
  /\ calls' = Append(calls, Call("user_playlists", NoPlaylist, <<>>))
  /\ \/ /\ Raise("api error")
        /\ UNCHANGED <<playlist_id>>
     \/ /\ playlist_id' = FindByName(FirstPage(listing))
        /\ pc' = IF playlist_id' = NoPlaylist THEN "create" ELSE AfterFind
        /\ UNCHANGED <<logs, err, runs>>
  /\ UNCHANGED <<remoteVars, op, liked_tracks, playlist_track_ids,
                 tracks_to_add_uris, tracks_to_remove_ids, queue, synced_count,
                 ignored, prevClean, before, base>>

\* _find_or_create_playlist, lines 26-34, and run_sync_logic, lines 112-117
SyncCreate ==
  /\ UNCHANGED undoVars
  /\ op = "sync" /\ pc = "create"
  /\ calls' = Append(calls, Call("user_playlist_create", NoPlaylist, <<>>))
  /\ \/ /\ logs' = add_log(add_log(logs, "could not create playlist"), "halting")
        /\ err' = TRUE
        /\ pc' = "done"
        /\ runs' = runs + 1
        /\ UNCHANGED <<playlist_id, listing, contents>>
     \/ /\ playlist_id' = FreshId
        /\ listing' = <<[id |-> FreshId, name |-> TARGET_PLAYLIST_NAME]>> \o listing
        /\ contents' = [p \in DOMAIN contents \cup {FreshId} |->
                          IF p = FreshId THEN <<>> ELSE contents[p]]
        /\ logs' = add_log(logs, "created playlist")
        /\ pc' = AfterFind
        /\ UNCHANGED <<err, runs>>
  /\ UNCHANGED <<likedLib, op, liked_tracks, playlist_track_ids,
                 tracks_to_add_uris, tracks_to_remove_ids, queue, synced_count,
                 ignored, prevClean, before, base>>

\* _get_all_liked_tracks
SyncLiked ==
  /\ UNCHANGED undoVars
  /\ op = "sync" /\ pc = "liked"
  /\ calls' = Append(calls, Call("current_user_saved_tracks", NoPlaylist, <<>>))
  /\ \/ /\ Raise("api error")
        /\ UNCHANGED <<liked_tracks>>
     \/ /\ liked_tracks' = CollectLiked(likedLib)
        /\ logs' = add_log(add_log(logs, "fetching liked"), "found liked")
        /\ pc' = "items"
        /\ UNCHANGED <<err, runs>>
  /\ UNCHANGED <<remoteVars, op, playlist_id, playlist_track_ids,
                 tracks_to_add_uris, tracks_to_remove_ids, queue, synced_count,
                 ignored, prevClean, before, base>>

\* _get_all_playlist_tracks, then the diff of lines 122-124
SyncItems ==
  /\ UNCHANGED undoVars
  /\ op = "sync" /\ pc = "items"
  /\ calls' = Append(calls, Call("playlist_items", playlist_id, <<>>))
  /\ \/ /\ Raise("api error")
        /\ UNCHANGED <<playlist_track_ids, tracks_to_add_uris, tracks_to_remove_ids>>
     \/ /\ playlist_track_ids' = CollectIds(contents[playlist_id])
        /\ tracks_to_add_uris' = ToAddUris(liked_tracks, playlist_track_ids')
        /\ tracks_to_remove_ids' \in
             Orders(ToRemoveIds(liked_tracks, playlist_track_ids'))
        /\ logs' = add_log(add_log(logs, "fetching playlist"), "playlist contains")
        /\ pc' = "remove"
        /\ UNCHANGED <<err, runs>>
  /\ UNCHANGED <<remoteVars, op, playlist_id, liked_tracks, queue, synced_count,
                 ignored, prevClean, before, base>>

\* _remove_tracks, lines 72-75: the early return, or the loop is entered
SyncRemoveBegin ==
  /\ UNCHANGED undoVars
  /\ op = "sync" /\ pc = "remove"
  /\ IF tracks_to_remove_ids = <<>>
     THEN /\ pc' = "add"
          /\ UNCHANGED <<queue, logs>>
     ELSE /\ pc' = "removing"
          /\ queue' = Chunks(tracks_to_remove_ids)
          /\ logs' = add_log(logs, "removing")
  /\ UNCHANGED <<remoteVars, op, playlist_id, liked_tracks, playlist_track_ids,
                 tracks_to_add_uris, tracks_to_remove_ids, calls, err,
                 synced_count, callerVars>>

\* _remove_tracks, lines 75-78: one pass of the loop
SyncRemoveChunk ==
  /\ UNCHANGED undoVars
  /\ op = "sync" /\ pc = "removing"
  /\ calls' = Append(calls, Call("remove", playlist_id, Head(queue)))
  /\ \/ /\ Raise("api error")
        /\ UNCHANGED <<queue, contents>>
     \/ /\ Accepts(Head(queue))
        /\ contents' = [contents EXCEPT ![playlist_id] = RemoveAll(@, Head(queue))]
        /\ queue' = Tail(queue)
        /\ IF queue' = <<>>
           THEN pc' = "add" /\ logs' = add_log(logs, "removed")
           ELSE UNCHANGED <<pc, logs>>
        /\ UNCHANGED <<err, runs>>
  /\ UNCHANGED <<likedLib, listing, op, playlist_id, liked_tracks,
                 playlist_track_ids, tracks_to_add_uris, tracks_to_remove_ids,
                 synced_count, ignored, prevClean, before, base>>

\* _add_tracks, lines 82-85
SyncAddBegin ==
  /\ UNCHANGED undoVars
  /\ op = "sync" /\ pc = "add"
  /\ IF tracks_to_add_uris = <<>>
     THEN /\ pc' = "finish"
          /\ UNCHANGED <<queue, logs>>
     ELSE /\ pc' = "adding"
          /\ queue' = AddOrder(tracks_to_add_uris)
          /\ logs' = add_log(logs, "adding")
  /\ base' = contents[playlist_id]
  /\ UNCHANGED <<remoteVars, op, playlist_id, liked_tracks, playlist_track_ids,
                 tracks_to_add_uris, tracks_to_remove_ids, calls, err,
                 synced_count, ignored, runs, prevClean, before>>

\* _add_tracks, lines 86-88: one pass of the loop
SyncAddChunk ==
  /\ UNCHANGED undoVars
  /\ op = "sync" /\ pc = "adding"
  /\ calls' = Append(calls, Call("add", playlist_id, Head(queue)))
  /\ \/ /\ Raise("api error")
        /\ UNCHANGED <<queue, contents>>
     \/ /\ Accepts(Head(queue))
        /\ contents' = [contents EXCEPT ![playlist_id] = InsertAtHead(@, Head(queue))]
        /\ queue' = Tail(queue)
        /\ IF queue' = <<>>
           THEN pc' = "finish" /\ logs' = add_log(logs, "synced")
           ELSE UNCHANGED <<pc, logs>>
        /\ UNCHANGED <<err, runs>>
  /\ UNCHANGED <<likedLib, listing, op, playlist_id, liked_tracks,
                 playlist_track_ids, tracks_to_add_uris, tracks_to_remove_ids,
                 synced_count, ignored, prevClean, before, base>>

\* run_sync_logic, lines 129-139
SyncFinish ==
  /\ UNCHANGED undoVars
  /\ op = "sync" /\ pc = "finish"
  /\ synced_count' = Len(tracks_to_add_uris)
  /\ logs' = IF tracks_to_add_uris = <<>> /\ tracks_to_remove_ids = <<>>
             THEN add_log(logs, "up to date") ELSE logs
  /\ pc' = "done"
  /\ runs' = runs + 1
  /\ UNCHANGED <<remoteVars, op, playlist_id, liked_tracks, playlist_track_ids,
                 tracks_to_add_uris, tracks_to_remove_ids, queue, calls, err,
                 ignored, prevClean, before, base>>

SyncNext ==
  \/ SyncStart
  \/ SyncFind
  \/ SyncCreate
  \/ SyncLiked
  \/ SyncItems
  \/ SyncRemoveBegin
  \/ SyncRemoveChunk
  \/ SyncAddBegin
  \/ SyncAddChunk
  \/ SyncFinish

\* ---------------------------------------------------------- database.py
UserId == "user"

Song(t) == [id |-> t, uri |-> Uri(t)]

Row(pid, song, batch, at) ==
  [user_id |-> UserId, playlist_id |-> pid, song_id |-> song.id,
   song_uri |-> song.uri, deleted_at |-> at, batch_id |-> batch]

\* log_deleted_songs, lines 52-61: one INSERT per song, then the commit.
InsertRows(rows, pid, songs, batch, at) ==
  rows \o [i \in 1..Len(songs) |-> Row(pid, songs[i], batch, at)]

\* The first query without its playlist_id condition: the batch of the
\* user's newest row, whatever its playlist.
LastBatchIdAnyPlaylist(rows, uid, pid) ==
  LET mine == SelectSeq(rows, LAMBDA r : r.user_id = uid)
  IN  IF mine = <<>> THEN NoBatch
      ELSE mine[CHOOSE i \in 1..Len(mine) :
                  \A j \in 1..Len(mine) : mine[j].deleted_at <= mine[i].deleted_at]
           .batch_id

\* get_last_deleted_batch, lines 75-88: the batch of the row that ORDER BY
\* deleted_at DESC LIMIT 1 picks among the pair's rows, or None.
LastBatchId(rows, uid, pid) ==
  LET mine == SelectSeq(rows, LAMBDA r : r.user_id = uid /\ r.playlist_id = pid)
  IN  IF mine = <<>> THEN NoBatch
      ELSE mine[CHOOSE i \in 1..Len(mine) :
                  \A j \in 1..Len(mine) : mine[j].deleted_at <= mine[i].deleted_at]
           .batch_id

\* get_last_deleted_batch, lines 91-98: the songs of the batch's rows.
BatchSongs(rows, batch) ==
  LET hit == SelectSeq(rows, LAMBDA r : r.batch_id = batch)
  IN  [i \in 1..Len(hit) |-> [id |-> hit[i].song_id, uri |-> hit[i].song_uri]]

\* The orders in which the SELECT without ORDER BY may return a batch:
\* every order of a short one; of a long one, insertion order and its reverse.
FetchOrders(songs) ==
  IF Len(songs) <= MaxLen + 1
  THEN {[i \in 1..Len(songs) |-> songs[f[i]]] :
          f \in {g \in [1..Len(songs) -> 1..Len(songs)] :
                   \A a, b \in 1..Len(songs) : a /= b => g[a] /= g[b]}}
  ELSE {songs, Reverse(songs)}

\* clear_deleted_batch, line 112
DeleteRows(rows, batch) == SelectSeq(rows, LAMBDA r : r.batch_id /= batch)

\* ----------------------------------------------------- delete-last-N, undo
\* The caller's record of an invocation, opened when it is called.
\* batch is the batch a delete has committed to the ledger, or an undo has
\* retrieved from it; raised tells that an except branch was taken, and
\* unreachable that get_db_connection returned None to one of its steps.
Called(name, pid, n) ==
  [op |-> name, num |-> n, prior |-> LastBatchId(ledger, UserId, pid),
   pre |-> contents[pid], store |-> ledger, done |-> FALSE, success |-> FALSE,
   count |-> 0, batch |-> NoBatch, post |-> <<>>, raised |-> FALSE,
   unreachable |-> FALSE]

\* The running invocation has committed or retrieved batch b.
Noted(h, b) == [h EXCEPT ![Len(h)] = [@ EXCEPT !.batch = b]]

\* get_db_connection returned None to a step of the running invocation.
Unreached(h) == [h EXCEPT ![Len(h)] = [@ EXCEPT !.unreachable = TRUE]]

\* The invocation returns {"success": ok, ...} to the caller.
Returns(h, ok, n, after, exc) ==
  /\ success' = ok
  /\ count' = n
  /\ pc' = "done"
  /\ hist' = [h EXCEPT ![Len(h)] =
               [@ EXCEPT !.done = TRUE, !.success = ok, !.count = n,
                         !.post = after, !.raised = exc]]

Return(h, ok, n, after) == Returns(h, ok, n, after, FALSE)

\* The environment fails the step, within its budget.
Fault ==
  /\ faultsLeft > 0
  /\ faultsLeft' = faultsLeft - 1

\* An except branch: the log entry and {"success": False}.
Except(message) ==
  /\ logs' = add_log(logs, message)
  /\ err' = TRUE
  /\ Returns(hist, FALSE, 0, contents[playlist_id], TRUE)

\* A step the environment fails raises.
Fail(message) ==
  /\ Fault
  /\ Except(message)

\* A mutation call the remote does not accept raises.
Rejected(items) ==
  /\ ~Accepts(items)
  /\ UNCHANGED faultsLeft
  /\ Except("api error")

\* What delete-last-N and undo leave alone: the locals of run_sync_logic, and
\* the transaction, which log_deleted_songs opens and ends within one step.
syncOnly == <<liked_tracks, playlist_track_ids, tracks_to_add_uris,
              tracks_to_remove_ids, queue, synced_count, ignored, runs,
              prevClean, base, txn, asideVars, collectVars, mainVars>>

\* The counts a caller asks delete-last-N for.
DeleteCounts == (-1..(MaxLen + 1)) \cup {ChunkSize, ChunkSize + 1}

\* playlist_tracks[:n], the leading n
FirstN(s, n) == SubSeq(s, 1, IF n < Len(s) THEN n ELSE Len(s))

\* playlist_tracks[-n:] for n > 0: the whole list when n exceeds its length
LastN(s, n) == SubSeq(s, IF n < Len(s) THEN Len(s) - n + 1 ELSE 1, Len(s))

\* remove_last_x_songs, lines 154-167: the items that have a track.
ResolvedTracks(items) ==
  LET kept == SelectSeq(items, LAMBDA x : x /= NoTrack)
  IN  [i \in 1..Len(kept) |-> Song(kept[i])]

\* remove_last_x_songs, line 146, were the test `< 0`
InvalidCountNegativeOnly(n) == n < 0

\* remove_last_x_songs, line 146
InvalidCount(n) == n <= 0

\* remove_last_x_songs, line 169, were the test `len(playlist_tracks) + 1 < n`
TooManyOffByOne(tracks, n) == Len(tracks) + 1 < n

\* remove_last_x_songs, line 169
TooMany(tracks, n) == Len(tracks) < n

\* remove_last_x_songs, lines 146-150
DelStart ==
  /\ pc \in {"idle", "done"}
  /\ opsLeft > 0
  /\ opsLeft' = opsLeft - 1
  /\ \E n \in DeleteCounts :
       /\ n <= Len(contents[1]) + 1
       /\ num_to_delete' = n
       /\ op' = "delete"
       /\ playlist_id' = 1
       /\ calls' = <<>>
       /\ err' = FALSE
       /\ before' = contents
       /\ playlist_tracks' = <<>>
       /\ tracks_to_delete' = <<>>
       /\ songs_to_restore' = <<>>
       /\ batch_id' = NoBatch
       /\ IF InvalidCount(n)
          THEN /\ logs' = add_log(<<>>, "count must be positive")
               /\ Return(Append(hist, Called("delete", 1, n)), FALSE, 0,
                         contents[1])
          ELSE /\ logs' = add_log(<<>>, "attempting delete")
               /\ pc' = "fetch"
               /\ hist' = Append(hist, Called("delete", 1, n))
               /\ UNCHANGED <<success, count>>
  /\ UNCHANGED <<remoteVars, syncOnly, ledger, now, issued, faultsLeft>>

\* remove_last_x_songs, lines 154-178
DelFetch ==
  /\ op = "delete" /\ pc = "fetch"
  /\ calls' = Append(calls, Call("playlist_items", playlist_id, <<>>))
  /\ \/ /\ Fail("api error")
        /\ UNCHANGED <<playlist_tracks, tracks_to_delete, batch_id, issued>>
     \/ /\ UNCHANGED faultsLeft
        /\ playlist_tracks' = ResolvedTracks(contents[playlist_id])
        /\ IF TooMany(playlist_tracks', num_to_delete)
           THEN /\ logs' = add_log(logs, "cannot delete that many")
                /\ Return(hist, FALSE, 0, contents[playlist_id])
                /\ UNCHANGED <<tracks_to_delete, batch_id, issued, err>>
           ELSE /\ tracks_to_delete' = LastN(playlist_tracks', num_to_delete)
                /\ batch_id' = issued + 1
                /\ issued' = issued + 1
                /\ pc' = "record"
                /\ UNCHANGED <<logs, err, success, count, hist>>
  /\ UNCHANGED <<remoteVars, syncOnly, ledger, now, num_to_delete, playlist_id,
                 op, before, songs_to_restore, opsLeft>>

\* remove_last_x_songs, lines 179-180, and log_deleted_songs
DelRecord ==
  /\ op = "delete" /\ pc = "record"
  /\ \/ \* get_db_connection returned None: log_deleted_songs returns
        /\ Fault
        /\ logs' = add_log(logs, "logged for undo")
        /\ pc' = "remove"
        /\ hist' = Unreached(hist)
        /\ UNCHANGED <<ledger, now, err, success, count>>
     \/ \* the rows are inserted and committed
        /\ UNCHANGED faultsLeft
        /\ ledger' = InsertRows(ledger, playlist_id, tracks_to_delete, batch_id,
                                now + 1)
        /\ now' = now + 1
        /\ logs' = add_log(logs, "logged for undo")
        /\ pc' = "remove"
        /\ hist' = Noted(hist, batch_id)
        /\ UNCHANGED <<err, success, count>>
     \/ \* an execute or the commit raises: nothing is committed
        /\ Fail("unexpected error")
        /\ UNCHANGED <<ledger, now>>
  /\ UNCHANGED <<remoteVars, syncOnly, issued, num_to_delete, playlist_id, op,
                 before, playlist_tracks, tracks_to_delete, batch_id,
                 songs_to_restore, calls, opsLeft>>

\* line 175
IdsOf(songs) == [i \in 1..Len(songs) |-> songs[i].id]

\* remove_last_x_songs, line 183: the ids go out in one call.
RemovalCalls(ids) == <<ids>>

\* remove_last_x_songs, lines 183-192
DelRemove ==
  /\ op = "delete" /\ pc = "remove"
  /\ LET sent == RemovalCalls(IdsOf(tracks_to_delete))[1]
     IN  /\ calls' = Append(calls, Call("remove", playlist_id, sent))
         /\ \/ /\ Fail("api error")
               /\ UNCHANGED contents
            \/ /\ Rejected(sent)
               /\ UNCHANGED contents
            \/ /\ Accepts(sent)
               /\ UNCHANGED faultsLeft
               /\ contents' = [contents EXCEPT ![playlist_id] = RemoveAll(@, sent)]
               /\ logs' = add_log(logs, "deleted")
               /\ Return(hist, TRUE, Len(tracks_to_delete), contents'[playlist_id])
               /\ UNCHANGED err
  /\ UNCHANGED <<likedLib, listing, syncOnly, ledger, now, issued, num_to_delete,
                 playlist_id, op, before, playlist_tracks, tracks_to_delete,
                 batch_id, songs_to_restore, opsLeft>>

\* undo_last_deletion, line 202
UndoStart ==
  /\ pc \in {"idle", "done"}
  /\ opsLeft > 0
  /\ opsLeft' = opsLeft - 1
  /\ op' = "undo"
  /\ pc' = "get"
  /\ playlist_id' = 1
  /\ num_to_delete' = 0
  /\ calls' = <<>>
  /\ err' = FALSE
  /\ before' = contents
  /\ playlist_tracks' = <<>>
  /\ tracks_to_delete' = <<>>
  /\ songs_to_restore' = <<>>
  /\ batch_id' = NoBatch
  /\ logs' = add_log(<<>>, "attempting undo")
  /\ hist' = Append(hist, Called("undo", 1, 0))
  /\ UNCHANGED <<remoteVars, syncOnly, ledger, now, issued, success, count,
                 faultsLeft>>

\* undo_last_deletion with the re-add of line 217 left out: the clear of
\* line 220 follows the retrieval.
AfterGetClear == "clear"

\* undo_last_deletion, lines 212-217: the re-add follows the retrieval.
AfterGet == "restore"

\* undo_last_deletion, lines 206-212, and get_last_deleted_batch
UndoGet ==
  /\ op = "undo" /\ pc = "get"
  /\ \/ \* get_db_connection returned None: (None, [])
        /\ Fault
        /\ logs' = add_log(logs, "nothing to undo")
        /\ Return(Unreached(hist), FALSE, 0, contents[playlist_id])
        /\ UNCHANGED <<batch_id, songs_to_restore, err>>
     \/ \* no row of the pair: (None, [])
        /\ LastBatchId(ledger, UserId, playlist_id) = NoBatch
        /\ logs' = add_log(logs, "nothing to undo")
        /\ Return(hist, FALSE, 0, contents[playlist_id])
        /\ UNCHANGED <<batch_id, songs_to_restore, err, faultsLeft>>
     \/ \* a query raises
        /\ Fail("unexpected error")
        /\ UNCHANGED <<batch_id, songs_to_restore>>
     \/ /\ LastBatchId(ledger, UserId, playlist_id) /= NoBatch
        /\ batch_id' = LastBatchId(ledger, UserId, playlist_id)
        /\ songs_to_restore' \in FetchOrders(BatchSongs(ledger, batch_id'))
        /\ logs' = add_log(logs, "found a batch")
        /\ pc' = AfterGet
        /\ hist' = Noted(hist, batch_id')
        /\ UNCHANGED <<err, success, count, faultsLeft>>
  /\ UNCHANGED <<remoteVars, syncOnly, ledger, now, issued, num_to_delete,
                 playlist_id, op, before, playlist_tracks, tracks_to_delete, calls,
                 opsLeft>>

\* line 215
UrisOf(songs) == [i \in 1..Len(songs) |-> songs[i].uri]

\* undo_last_deletion, line 217: the uris go out in one call.
RestoreCalls(uris) == <<uris>>

\* undo_last_deletion, lines 215-217
UndoAdd ==
  /\ op = "undo" /\ pc = "restore"
  /\ LET sent == RestoreCalls(UrisOf(songs_to_restore))[1]
     IN  /\ calls' = Append(calls, Call("add", playlist_id, sent))
         /\ \/ /\ Fail("api error")
               /\ UNCHANGED contents
            \/ /\ Rejected(sent)
               /\ UNCHANGED contents
            \/ /\ Accepts(sent)
               /\ UNCHANGED faultsLeft
               /\ contents' = [contents EXCEPT ![playlist_id] = Append_(@, sent)]
               /\ pc' = "clear"
               /\ UNCHANGED <<logs, err, success, count, hist>>
  /\ UNCHANGED <<likedLib, listing, syncOnly, ledger, now, issued, num_to_delete,
                 playlist_id, op, before, playlist_tracks, tracks_to_delete,
                 batch_id, songs_to_restore, opsLeft>>

\* undo_last_deletion, lines 220-223, and clear_deleted_batch
UndoClear ==
  /\ op = "undo" /\ pc = "clear"
  /\ \/ \* get_db_connection returned None: clear_deleted_batch returns
        /\ Fault
        /\ logs' = add_log(logs, "restored")
        /\ Return(Unreached(hist), TRUE, Len(songs_to_restore),
                  contents[playlist_id])
        /\ UNCHANGED <<ledger, err>>
     \/ \* the batch's rows are deleted and the delete committed
        /\ UNCHANGED faultsLeft
        /\ ledger' = DeleteRows(ledger, batch_id)
        /\ logs' = add_log(logs, "restored")
        /\ Return(hist, TRUE, Len(songs_to_restore), contents[playlist_id])
        /\ UNCHANGED err
     \/ \* the DELETE or the commit raises
        /\ Fail("unexpected error")
        /\ UNCHANGED ledger
  /\ UNCHANGED <<remoteVars, syncOnly, now, issued, num_to_delete, playlist_id,
                 op, before, playlist_tracks, tracks_to_delete, batch_id,
                 songs_to_restore, calls, opsLeft>>

UndoNext ==
  \/ DelStart
  \/ DelFetch
  \/ DelRecord
  \/ DelRemove
  \/ UndoStart
  \/ UndoGet
  \/ UndoAdd
  \/ UndoClear

\* ------------------------------------------------------- initial states
Tracks == 1..MaxTrack
Items == 0..MaxTrack

\* Lengths around the chunk boundaries.
BigLens == {m * ChunkSize + d : m \in 1..(MaxChunks - 1), d \in {0, 1}}
             \cup {MaxChunks * ChunkSize - ChunkSize \div 2}

Target(id) == [id |-> id, name |-> TARGET_PLAYLIST_NAME]
Other(id) == [id |-> id, name |-> OtherName]

\* A listing with the target playlist (id 1) behind n other playlists.
Behind(n) == [i \in 1..(n + 1) |-> IF i <= n THEN Other(i + 1) ELSE Target(1)]

\* An invocation that has not been made.
NotStarted ==
  [op |-> "none", pc |-> "idle", playlist_id |-> NoPlaylist,
   liked_tracks |-> <<>>, playlist_track_ids |-> {},
   tracks_to_add_uris |-> <<>>, tracks_to_remove_ids |-> <<>>, queue |-> <<>>,
   calls |-> <<>>, logs |-> <<>>, err |-> FALSE, synced_count |-> 0,
   prevClean |-> FALSE, before |-> <<>>, base |-> <<>>]

\* main.py:63-67, add_log: newest first, the list cut to its first 50
AddLog(l, message) == Slice(<<message>> \o l, 0, LogsKept)

\* main.py:39-48 and startup_event: the module's state once the application
\* is up.
Booted ==
  /\ sync_status = [is_running |-> FALSE, playlist_id |-> NoPlaylist,
                    synced_count |-> 0,
                    logs |-> AddLog(<<>>, "scheduler started")]
  /\ active_sync_state = [token_info |-> NoToken, user_id |-> NoUser,
                          job |-> NoJob]
  /\ scheduler = [jobs |-> {}, due |-> FALSE, up |-> TRUE]

LocalInit ==
  /\ Booted
  /\ op = "none"
  /\ pc = "idle"
  /\ playlist_id = NoPlaylist
  /\ liked_tracks = <<>>
  /\ playlist_track_ids = {}
  /\ tracks_to_add_uris = <<>>
  /\ tracks_to_remove_ids = <<>>
  /\ queue = <<>>
  /\ calls = <<>>
  /\ logs = <<>>
  /\ err = FALSE
  /\ synced_count = 0
  /\ runs = 0
  /\ prevClean = FALSE
  /\ before = contents
  /\ base = <<>>
  /\ num_to_delete = 0
  /\ playlist_tracks = <<>>
  /\ tracks_to_delete = <<>>
  /\ batch_id = NoBatch
  /\ songs_to_restore = <<>>
  /\ success = FALSE
  /\ count = 0
  /\ hist = <<>>
  /\ txn = <<>>
  /\ parked = NotStarted
  /\ origin = contents

\* No collector is run on its own.
NoListing ==
  /\ pages = <<<<>>>>
  /\ results = 0
  /\ fetched = <<0>>

\* No delete-last-N or undo is run.
NoUndoOps ==
  /\ opsLeft = 0
  /\ faultsLeft = 0

\* A sequence whose tracks first occur in the order 1, 2, ...: one playlist
\* of each shape, track ids being interchangeable.
Canonical(s) ==
  \A i \in 1..Len(s) : \A t \in 1..(s[i] - 1) : \E j \in 1..(i - 1) : s[j] = t

\* The remote states reconcile is run from: every small library against
\* every small playlist; a user without the target playlist, or with it
\* behind one other playlist or behind a full listing page; and a library
\* of k tracks against a playlist of n other tracks, k and n around the
\* chunk boundaries, with or without one track that is in both.
SyncInputs ==
  \/ /\ likedLib \in DistinctSeqs(Items, MaxTrack + 1)
     /\ listing = Behind(0)
     /\ \E c \in SeqsUpTo(Items, MaxLen) : contents = <<c>>
  \/ /\ likedLib \in DistinctSeqs(Tracks, MaxTrack)
     /\ \/ listing = <<>> /\ contents = <<>>
        \/ /\ listing \in {Behind(1), Behind(PlaylistsPage)}
           /\ \E c \in SeqsUpTo(Tracks, 1) : contents = <<c>>
  \/ /\ listing = Behind(0)
     /\ \E k \in BigLens \cup {0}, n \in BigLens \cup {0},
           shared \in {<<>>, <<TopId>>} :
          /\ k + n > 0
          /\ k = 0 \/ n = 0 \/ k = n
          /\ likedLib = Range(1, k) \o shared
          /\ contents = <<shared \o Range(k + 1, k + n)>>

EmptyLedger ==
  /\ ledger = <<>>
  /\ now = 0
  /\ issued = 0

InitSync ==
  /\ SyncInputs
  /\ NoListing
  /\ EmptyLedger
  /\ NoUndoOps
  /\ ignored = {}
  /\ LocalInit

InitSyncIgnored ==
  /\ SyncInputs
  /\ NoListing
  /\ EmptyLedger
  /\ NoUndoOps
  /\ ignored \in SUBSET Tracks
  /\ LocalInit

\* The states delete-last-N and undo are run from: a small playlist (id 1)
\* of every shape, or one a track longer than a chunk; the ledger empty, or
\* holding the batch of an earlier deletion from another playlist (id 2).
UndoInputs ==
  /\ likedLib = <<>>
  /\ listing = <<Target(1), Other(2)>>
  /\ \E c \in {x \in SeqsUpTo(Items, MaxLen) : Canonical(x)}
               \cup {Range(1, ChunkSize + 1)} :
       contents = <<c, <<>>>>
  /\ \/ EmptyLedger
     \/ /\ ledger = InsertRows(<<>>, 2, <<Song(1)>>, 1, 1)
        /\ now = 1
        /\ issued = 1
  /\ ignored = {}
  /\ NoListing
  /\ LocalInit

InitUndo ==
  /\ UndoInputs
  /\ opsLeft = MaxOps
  /\ faultsLeft = MaxFaults

\* Two invocations more, and no failure.
InitUndoDeep ==
  /\ UndoInputs
  /\ opsLeft = MaxOps + 2
  /\ faultsLeft = 0

SpecUndo == InitUndo /\ [][UndoNext]_vars

SpecUndoDeep == InitUndoDeep /\ [][UndoNext]_vars

SpecSync == InitSync /\ [][SyncNext]_vars

SpecSyncIgnored == InitSyncIgnored /\ [][SyncNext]_vars

\* ------------------------------------------- database.py, called directly
\* The ledger's functions called one at a time, log_deleted_songs statement
\* by statement.  op is then "record", "latest" or "clear"; playlist_id,
\* tracks_to_delete and batch_id hold the arguments, batch_id and
\* songs_to_restore what get_last_deleted_batch returns, err that the call
\* raised, and hist one record per call.

\* What no function of database.py touches.
ledgerFrame == <<remoteVars, liked_tracks, playlist_track_ids,
                 tracks_to_add_uris, tracks_to_remove_ids, queue, calls, logs,
                 synced_count, callerVars, num_to_delete, playlist_tracks,
                 success, count, asideVars, collectVars, mainVars>>

\* The playlists of the pairs the ledger is asked about.
LedgerPlaylists == {1, 2}

\* The song lists log_deleted_songs is given, one of each shape.
SongLists ==
  {[i \in 1..Len(s) |-> Song(s[i])] :
     s \in {x \in SeqsUpTo(Tracks, MaxLen) : Canonical(x)}}

\* The record of a call, opened when it is made.
Asked(name, pid, songs, b) ==
  [op |-> name, pid |-> pid, songs |-> songs, batch |-> b, store |-> ledger,
   at |-> now + 1, done |-> FALSE, raised |-> FALSE, unreachable |-> FALSE,
   result |-> <<>>]

\* The call ends: b and res are what it returns (of a record call that
\* raised, res is the rows it had inserted), exc that it raised, unr that
\* get_db_connection gave it None.
Ended(h, b, res, exc, unr) ==
  [h EXCEPT ![Len(h)] =
     [@ EXCEPT !.done = TRUE, !.batch = b, !.result = res, !.raised = exc,
               !.unreachable = unr]]

\* conn.commit(), line 61: the inserted rows become the table's.
Commit(rows, pending) == rows \o pending

\* conn.close() on a connection in autocommit mode: the rows inserted before
\* the failure stay.
RollbackKeepsInserted(rows, pending) == rows \o pending

\* conn.close() with the transaction open, lines 62-64: psycopg2 rolls it
\* back.
Rollback(rows, pending) == rows

\* log_deleted_songs, lines 46-52
LogCall ==
  /\ pc \in {"idle", "done"}
  /\ opsLeft > 0
  /\ opsLeft' = opsLeft - 1
  /\ \E pid \in LedgerPlaylists, songs \in SongLists :
       /\ op' = "record"
       /\ playlist_id' = pid
       /\ tracks_to_delete' = songs
       /\ batch_id' = issued + 1
       /\ \/ \* get_db_connection returned None: return
             /\ Fault
             /\ pc' = "done"
             /\ hist' = Ended(Append(hist, Asked("record", pid, songs, issued + 1)),
                              issued + 1, <<>>, FALSE, TRUE)
          \/ /\ UNCHANGED faultsLeft
             /\ pc' = "insert"
             /\ hist' = Append(hist, Asked("record", pid, songs, issued + 1))
  /\ issued' = issued + 1
  /\ err' = FALSE
  /\ songs_to_restore' = <<>>
  /\ txn' = <<>>
  /\ UNCHANGED <<ledgerFrame, ledger, now>>

\* The call leaves log_deleted_songs by an exception, through the finally.
LogAbort ==
  /\ Fault
  /\ ledger' = Rollback(ledger, txn)
  /\ txn' = <<>>
  /\ err' = TRUE
  /\ pc' = "done"
  /\ hist' = Ended(hist, batch_id, txn, TRUE, FALSE)
  /\ UNCHANGED now

\* log_deleted_songs, lines 53-60: one pass of the loop
LogInsert ==
  /\ op = "record" /\ pc = "insert"
  /\ Len(txn) < Len(tracks_to_delete)
  /\ \/ /\ txn' = Append(txn, Row(playlist_id, tracks_to_delete[Len(txn) + 1],
                                  batch_id, now + 1))
        /\ UNCHANGED <<ledger, now, err, pc, hist, faultsLeft>>
     \/ LogAbort
  /\ UNCHANGED <<ledgerFrame, op, playlist_id, tracks_to_delete, batch_id,
                 songs_to_restore, issued, opsLeft>>

\* log_deleted_songs, lines 61-64
LogCommit ==
  /\ op = "record" /\ pc = "insert"
  /\ Len(txn) = Len(tracks_to_delete)
  /\ \/ /\ ledger' = Commit(ledger, txn)
        /\ now' = now + 1
        /\ txn' = <<>>
        /\ pc' = "done"
        /\ hist' = Ended(hist, batch_id, <<>>, FALSE, FALSE)
        /\ UNCHANGED <<err, faultsLeft>>
     \/ LogAbort
  /\ UNCHANGED <<ledgerFrame, op, playlist_id, tracks_to_delete, batch_id,
                 songs_to_restore, issued, opsLeft>>

\* get_last_deleted_batch
GetLast ==
  /\ pc \in {"idle", "done"}
  /\ opsLeft > 0
  /\ opsLeft' = opsLeft - 1
  /\ op' = "latest"
  /\ pc' = "done"
  /\ \E pid \in LedgerPlaylists :
       /\ playlist_id' = pid
       /\ \/ \* get_db_connection returned None: (None, [])
             /\ Fault
             /\ batch_id' = NoBatch
             /\ songs_to_restore' = <<>>
             /\ err' = FALSE
             /\ hist' = Ended(Append(hist, Asked("latest", pid, <<>>, NoBatch)),
                              NoBatch, <<>>, FALSE, TRUE)
          \/ \* a query raises
             /\ Fault
             /\ batch_id' = NoBatch
             /\ songs_to_restore' = <<>>
             /\ err' = TRUE
             /\ hist' = Ended(Append(hist, Asked("latest", pid, <<>>, NoBatch)),
                              NoBatch, <<>>, TRUE, FALSE)
          \/ /\ UNCHANGED faultsLeft
             /\ batch_id' = LastBatchId(ledger, UserId, pid)
             /\ songs_to_restore' \in
                  IF batch_id' = NoBatch THEN {<<>>}
                  ELSE FetchOrders(BatchSongs(ledger, batch_id'))
             /\ err' = FALSE
             /\ hist' = Ended(Append(hist, Asked("latest", pid, <<>>, NoBatch)),
                              batch_id', songs_to_restore', FALSE, FALSE)
  /\ UNCHANGED <<ledgerFrame, ledger, now, issued, tracks_to_delete, txn>>

\* clear_deleted_batch
ClearBatch ==
  /\ pc \in {"idle", "done"}
  /\ opsLeft > 0
  /\ opsLeft' = opsLeft - 1
  /\ op' = "clear"
  /\ pc' = "done"
  /\ \E b \in 1..(issued + 1) :
       /\ batch_id' = b
       /\ \/ \* get_db_connection returned None: return
             /\ Fault
             /\ err' = FALSE
             /\ hist' = Ended(Append(hist, Asked("clear", NoPlaylist, <<>>, b)),
                              b, <<>>, FALSE, TRUE)
             /\ UNCHANGED <<ledger, now>>
          \/ \* the DELETE or the commit raises
             /\ Fault
             /\ err' = TRUE
             /\ hist' = Ended(Append(hist, Asked("clear", NoPlaylist, <<>>, b)),
                              b, <<>>, TRUE, FALSE)
             /\ UNCHANGED <<ledger, now>>
          \/ /\ UNCHANGED faultsLeft
             /\ ledger' = DeleteRows(ledger, b)
             /\ now' = now + 1
             /\ err' = FALSE
             /\ hist' = Ended(Append(hist, Asked("clear", NoPlaylist, <<>>, b)),
                              b, <<>>, FALSE, FALSE)
  /\ UNCHANGED <<ledgerFrame, issued, playlist_id, tracks_to_delete,
                 songs_to_restore, txn>>

LedgerNext ==
  \/ LogCall
  \/ LogInsert
  \/ LogCommit
  \/ GetLast
  \/ ClearBatch

\* The ledgers the functions are called on: the empty one, one batch of
\* another pair, or two batches of one pair.
LedgerInputs ==
  /\ likedLib = <<>>
  /\ listing = <<Target(1), Other(2)>>
  /\ contents = <<<<>>, <<>>>>
  /\ \/ EmptyLedger
     \/ /\ ledger = InsertRows(<<>>, 2, <<Song(1)>>, 1, 1)
        /\ now = 1
        /\ issued = 1
     \/ /\ ledger = InsertRows(InsertRows(<<>>, 1, <<Song(1), Song(2)>>, 1, 1),
                               1, <<Song(2)>>, 2, 2)
        /\ now = 2
        /\ issued = 2
  /\ ignored = {}
  /\ NoListing
  /\ LocalInit

InitLedger ==
  /\ LedgerInputs
  /\ opsLeft = MaxOps
  /\ faultsLeft = MaxFaults

SpecLedger == InitLedger /\ [][LedgerNext]_vars

\* ------------------------------------------ two reconcile invocations at once
\* run_sync_logic takes no lock: two invocations for one user interleave at
\* their remote calls.  One is the running one, whose locals are the
\* variables of reconcile; the other's are parked.

\* The locals of the running invocation, and what its caller notes of it.
Locals ==
  [op |-> op, pc |-> pc, playlist_id |-> playlist_id,
   liked_tracks |-> liked_tracks, playlist_track_ids |-> playlist_track_ids,
   tracks_to_add_uris |-> tracks_to_add_uris,
   tracks_to_remove_ids |-> tracks_to_remove_ids, queue |-> queue,
   calls |-> calls, logs |-> logs, err |-> err, synced_count |-> synced_count,
   prevClean |-> prevClean, before |-> before, base |-> base]

\* The running invocation is left where it stands, and the other goes on.
Switch ==
  /\ parked' = Locals
  /\ op' = parked.op
  /\ pc' = parked.pc
  /\ playlist_id' = parked.playlist_id
  /\ liked_tracks' = parked.liked_tracks
  /\ playlist_track_ids' = parked.playlist_track_ids
  /\ tracks_to_add_uris' = parked.tracks_to_add_uris
  /\ tracks_to_remove_ids' = parked.tracks_to_remove_ids
  /\ queue' = parked.queue
  /\ calls' = parked.calls
  /\ logs' = parked.logs
  /\ err' = parked.err
  /\ synced_count' = parked.synced_count
  /\ prevClean' = parked.prevClean
  /\ before' = parked.before
  /\ base' = parked.base
  /\ UNCHANGED <<remoteVars, ignored, runs, ledger, now, issued, num_to_delete,
                 playlist_tracks, tracks_to_delete, batch_id, songs_to_restore,
                 success, count, hist, opsLeft, faultsLeft, txn, origin,
                 collectVars, mainVars>>

RaceNext ==
  \/ SyncNext
  \/ Switch

\* The remote states two racing invocations are run from: every small
\* library of tracks against every small playlist of tracks, or a user
\* without the target playlist.
RaceInputs ==
  /\ likedLib \in DistinctSeqs(Tracks, MaxTrack)
  /\ \/ /\ listing = Behind(0)
        /\ \E c \in SeqsUpTo(Tracks, MaxLen) : contents = <<c>>
     \/ listing = <<>> /\ contents = <<>>

InitRace ==
  /\ RaceInputs
  /\ NoListing
  /\ EmptyLedger
  /\ NoUndoOps
  /\ ignored = {}
  /\ LocalInit

SpecRace == InitRace /\ [][RaceNext]_vars

\* ------------------------------------------------- the paginated collector
\* The loops of _get_all_liked_tracks and _get_all_playlist_tracks, page by
\* page.  op is then "liked" or "playlist", and liked_tracks or
\* playlist_track_ids the collection the loop builds.

\* What the collectors leave alone.
collectFrame == <<remoteVars, playlist_id, tracks_to_add_uris,
                  tracks_to_remove_ids, queue, calls, synced_count, callerVars,
                  ledger, now, issued, num_to_delete, playlist_tracks,
                  tracks_to_delete, batch_id, songs_to_restore, success, count,
                  hist, opsLeft, txn, asideVars, pages, mainVars>>

\* results['next'] of page k with no later page: the loop ends after it.
HasNextNever(k) == FALSE

\* results['next'] of page k: there is a later page.
HasNext(k) == k < Len(pages)

\* The remote is asked for page k.
Fetch(k) == fetched' = [fetched EXCEPT ![k] = @ + 1]

\* The request raises: the collector is left by the exception.
FetchFails ==
  /\ Fault
  /\ err' = TRUE
  /\ pc' = "raised"
  /\ results' = 0

\* lines 46 and 62 over one page: the dict keeps its keys where they are and
\* gains the page's new ids in page order; the set gains the page's ids.
MergeLiked(d, page) ==
  d \o SelectSeq(CollectLiked(page), LAMBDA kv : kv[1] \notin Keys(d))

\* sp.next(results), or results = None and the closing log entry
Advance(message) ==
  IF HasNext(results)
  THEN \/ /\ Fetch(results + 1)
          /\ results' = results + 1
          /\ UNCHANGED <<pc, logs, err, faultsLeft>>
       \/ /\ Fetch(results + 1)
          /\ FetchFails
          /\ UNCHANGED logs
  ELSE /\ results' = 0
       /\ pc' = "done"
       /\ logs' = add_log(logs, message)
       /\ UNCHANGED <<fetched, err, faultsLeft>>

\* _get_all_liked_tracks, lines 40-42
GetLikedStart ==
  /\ pc = "idle"
  /\ op' = "liked"
  /\ liked_tracks' = <<>>
  /\ logs' = add_log(logs, "fetching liked")
  /\ Fetch(1)
  /\ \/ /\ results' = 1
        /\ pc' = "page"
        /\ UNCHANGED <<err, faultsLeft>>
     \/ FetchFails
  /\ UNCHANGED <<collectFrame, playlist_track_ids>>

\* _get_all_liked_tracks, lines 43-52: one pass of the while loop
GetLikedPage ==
  /\ op = "liked" /\ pc = "page"
  /\ liked_tracks' = MergeLiked(liked_tracks, pages[results])
  /\ Advance("found liked")
  /\ UNCHANGED <<collectFrame, op, playlist_track_ids>>

\* _get_all_playlist_tracks, lines 56-58
GetPlaylistStart ==
  /\ pc = "idle"
  /\ op' = "playlist"
  /\ playlist_track_ids' = {}
  /\ logs' = add_log(logs, "fetching playlist")
  /\ Fetch(1)
  /\ \/ /\ results' = 1
        /\ pc' = "page"
        /\ UNCHANGED <<err, faultsLeft>>
     \/ FetchFails
  /\ UNCHANGED <<collectFrame, liked_tracks>>

\* _get_all_playlist_tracks, lines 59-68: one pass of the while loop
GetPlaylistPage ==
  /\ op = "playlist" /\ pc = "page"
  /\ playlist_track_ids' = playlist_track_ids \cup CollectIds(pages[results])
  /\ Advance("playlist contains")
  /\ UNCHANGED <<collectFrame, op, liked_tracks>>

CollectNext ==
  \/ GetLikedStart
  \/ GetLikedPage
  \/ GetPlaylistStart
  \/ GetPlaylistPage

RECURSIVE Sum(_)
Sum(s) == IF s = <<>> THEN 0 ELSE Head(s) + Sum(Tail(s))

\* The listing cut into pages of the given lengths.
Split(items, lens) ==
  [k \in 1..Len(lens) |->
     SubSeq(items, Sum(SubSeq(lens, 1, k - 1)) + 1, Sum(SubSeq(lens, 1, k)))]

RECURSIVE Flatten(_)
Flatten(ps) == IF ps = <<>> THEN <<>> ELSE Head(ps) \o Flatten(Tail(ps))

\* The listings the collectors are run on: every short listing of each
\* shape, items without a track among them, cut in every way into one to
\* MaxPages pages, empty pages among them.
CollectInputs ==
  \E items \in {x \in SeqsUpTo(Items, MaxLen + 1) : Canonical(x)} :
    \E n \in 1..MaxPages :
      \E lens \in [1..n -> 0..Len(items)] :
        /\ Sum(lens) = Len(items)
        /\ pages = Split(items, lens)
        /\ fetched = [k \in 1..n |-> 0]

InitCollect ==
  /\ CollectInputs
  /\ results = 0
  /\ likedLib = <<>>
  /\ listing = <<>>
  /\ contents = <<>>
  /\ EmptyLedger
  /\ opsLeft = 0
  /\ faultsLeft = MaxFaults
  /\ ignored = {}
  /\ LocalInit

\* Once called, the loop is run to its end.
SpecCollect == InitCollect /\ [][CollectNext]_vars /\ WF_vars(CollectNext)

\* ----------------------------------------------------------------- main.py
\* The handlers of the web application and the scheduled sync_job.  A
\* handler has no await between its statements but on stop_sync_task and
\* sync_job, which have none on anything else: it runs as one step.  calls
\* holds the remote calls of the last handler, hist one record per handler.

\* What the handlers leave alone.
mainFrame == <<likedLib, op, pc, playlist_id, liked_tracks, playlist_track_ids,
               tracks_to_add_uris, tracks_to_remove_ids, queue, logs, err,
               synced_count, callerVars, ledger, now, issued, num_to_delete,
               playlist_tracks, tracks_to_delete, batch_id, songs_to_restore,
               success, count, txn, asideVars, collectVars>>

\* main.py:152, id='sync_job'
JobId == "sync_job"

\* What the session of a request holds under TOKEN_INFO_SESSION_KEY.
SessionTokens == {NoToken, LoginToken}

\* The module's state as one value the handlers pass on.
Module == [ss |-> sync_status, st |-> active_sync_state, sc |-> scheduler]

\* The record of a handler, opened when it is called: ran tells that
\* sync_job came to its remote calls, failed that an except branch was taken
\* or the handler raised, added how many uris a playlist_add_items call put
\* in, synced the synced_count the handler left.
Did(name) ==
  [op |-> name, was_running |-> sync_status.is_running,
   had_token |-> active_sync_state.token_info /= NoToken,
   ran |-> FALSE, failed |-> FALSE, added |-> 0, synced |-> 0]

\* The handler returns.
Settle(m, cs, rec) ==
  /\ sync_status' = m.ss
  /\ active_sync_state' = m.st
  /\ scheduler' = m.sc
  /\ calls' = cs
  /\ hist' = Append(hist, [rec EXCEPT !.synced = m.ss.synced_count])

\* stop_sync_task with line 161 left out: the job stays registered.
JobsKept(jobs, job) == jobs

\* line 161, active_sync_state["job"].remove()
JobsLess(jobs, job) == jobs \ {job}

\* stop_sync_task
StopTask(m) ==
  IF m.ss.is_running
  THEN [ss |-> [m.ss EXCEPT !.is_running = FALSE, !.playlist_id = NoPlaylist,
                            !.logs = AddLog(@, "sync stopped")],
        st |-> [token_info |-> NoToken, user_id |-> NoUser, job |-> NoJob],
        sc |-> IF m.st.job /= NoJob
               THEN [m.sc EXCEPT !.jobs = JobsLess(@, m.st.job)]
               ELSE m.sc]
  ELSE m

\* sync_job, lines 93-135: the remote calls, the one numbered stop failing
\* (0: none fails).  The calls are 1 user_playlists, 2 user_playlist_create,
\* 3 current_user_saved_tracks, 4 playlist_items, 5 playlist_add_items.
SyncBody(m, cs, rec) ==
  \E stop \in 0..5 :
    LET look == m.ss.playlist_id = NoPlaylist
        found == IF look THEN FindByName(FirstPage(listing)) ELSE m.ss.playlist_id
        create == look /\ found = NoPlaylist
        pid == IF create THEN FreshId ELSE found
        page == FirstN(likedLib, LikedPage)
        \* line 115 subscripts item['track'] of every item
        bad == NoTrack \in ToSet(page)
        at == IF stop > 0 THEN stop ELSE IF bad THEN 3 ELSE 0
        Passed(k) == at = 0 \/ at > k
        Issued(k) == at = 0 \/ at >= k
        list1 == IF create /\ Passed(2) THEN <<Target(FreshId)>> \o listing
                 ELSE listing
        cont1 == IF create /\ Passed(2)
                 THEN [p \in DOMAIN contents \cup {FreshId} |->
                         IF p = FreshId THEN <<>> ELSE contents[p]]
                 ELSE contents
        liked_page == CollectLiked(page)
        ids == CollectIds(FirstN(cont1[pid], ItemsPage))
        new_track_ids == ToAddUris(liked_page, ids)
        grown == Passed(4) /\ new_track_ids /= <<>>
        log1 == IF look /\ Passed(1) /\ found /= NoPlaylist
                THEN AddLog(m.ss.logs, "found existing playlist")
                ELSE IF create /\ Passed(2)
                     THEN AddLog(m.ss.logs, "created playlist")
                     ELSE m.ss.logs
    IN  /\ stop = 1 => look
        /\ stop = 2 => create
        /\ bad => stop <= 3
        /\ stop = 5 => new_track_ids /= <<>>
        /\ IF stop > 0 THEN Fault ELSE UNCHANGED faultsLeft
        /\ listing' = list1
        /\ contents' = IF grown /\ Passed(5)
                       THEN [cont1 EXCEPT ![pid] = InsertAtHead(@, new_track_ids)]
                       ELSE cont1
        /\ Settle(
             [m EXCEPT
                !.ss = [@ EXCEPT
                  !.playlist_id = IF look /\ Passed(1) /\ (found /= NoPlaylist \/ Passed(2))
                                  THEN pid ELSE @,
                  !.synced_count = IF grown /\ Passed(5)
                                   THEN @ + Len(new_track_ids) ELSE @,
                  !.logs = AddLog(log1,
                             IF at > 0 THEN "error"
                             ELSE IF grown THEN "synced new songs"
                             ELSE "no new liked songs")]],
             cs \o (IF look THEN <<Call("user_playlists", NoPlaylist, <<>>)>>
                    ELSE <<>>)
                \o (IF create /\ Issued(2)
                    THEN <<Call("user_playlist_create", NoPlaylist, <<>>)>>
                    ELSE <<>>)
                \o (IF Issued(3)
                    THEN <<Call("current_user_saved_tracks", NoPlaylist, <<>>)>>
                    ELSE <<>>)
                \o (IF Issued(4) THEN <<Call("playlist_items", pid, <<>>)>>
                    ELSE <<>>)
                \o (IF grown /\ Issued(5) THEN <<Call("add", pid, new_track_ids)>>
                    ELSE <<>>),
             [rec EXCEPT !.ran = TRUE,
                         !.failed = at > 0,
                         !.added = IF grown /\ Passed(5)
                                   THEN Len(new_track_ids) ELSE 0])

\* sync_job, lines 72-91
SyncJob(m, cs, rec) ==
  IF m.st.token_info = NoToken
  THEN /\ Settle(m, cs, rec)
       /\ UNCHANGED <<listing, contents, faultsLeft>>
  ELSE \E expired \in BOOLEAN :
         \/ \* the refresh fails: the sync is stopped
            /\ expired
            /\ Fault
            /\ Settle(StopTask([m EXCEPT !.ss.logs =
                                  AddLog(@, "error refreshing token")]),
                      cs, [rec EXCEPT !.failed = TRUE])
            /\ UNCHANGED <<listing, contents>>
         \/ SyncBody(IF expired
                     THEN [m EXCEPT !.st.token_info = RefreshedToken,
                                    !.ss.logs = AddLog(@, "token refreshed")]
                     ELSE m,
                     cs, rec)

\* start_sync_endpoint and start_sync_task
StartSync ==
  /\ scheduler.up
  /\ opsLeft > 0
  /\ opsLeft' = opsLeft - 1
  /\ \E token \in SessionTokens :
       IF token = NoToken \/ sync_status.is_running
       THEN \* the 401, or nothing to do
            /\ Settle(Module, <<>>, [Did("start") EXCEPT !.failed = token = NoToken])
            /\ UNCHANGED <<listing, contents, faultsLeft>>
       ELSE \/ \* sp.current_user() raises
               /\ Fault
               /\ Settle(Module, <<Call("current_user", NoPlaylist, <<>>)>>,
                         [Did("start") EXCEPT !.failed = TRUE])
               /\ UNCHANGED <<listing, contents>>
            \/ \* scheduler.add_job raises ConflictingIdError
               /\ JobId \in scheduler.jobs
               /\ Settle([Module EXCEPT !.st.token_info = token,
                                        !.st.user_id = UserId],
                         <<Call("current_user", NoPlaylist, <<>>)>>,
                         [Did("start") EXCEPT !.failed = TRUE])
               /\ UNCHANGED <<listing, contents, faultsLeft>>
            \/ /\ JobId \notin scheduler.jobs
               /\ SyncJob([ss |-> [sync_status EXCEPT
                                     !.is_running = TRUE,
                                     !.logs = AddLog(@, "sync started")],
                           st |-> [token_info |-> token, user_id |-> UserId,
                                   job |-> JobId],
                           sc |-> [scheduler EXCEPT !.jobs = @ \cup {JobId}]],
                          <<Call("current_user", NoPlaylist, <<>>)>>,
                          Did("start"))
  /\ UNCHANGED mainFrame

\* stop_sync_endpoint
StopSync ==
  /\ scheduler.up
  /\ opsLeft > 0
  /\ opsLeft' = opsLeft - 1
  /\ Settle(StopTask(Module), <<>>, Did("stop"))
  /\ UNCHANGED <<mainFrame, listing, contents, faultsLeft>>

\* logout: the session is the client's; the sync is stopped
Logout ==
  /\ scheduler.up
  /\ opsLeft > 0
  /\ opsLeft' = opsLeft - 1
  /\ Settle(StopTask(Module), <<>>, Did("logout"))
  /\ UNCHANGED <<mainFrame, listing, contents, faultsLeft>>

\* shutdown_event
Shutdown ==
  /\ scheduler.up
  /\ opsLeft > 0
  /\ opsLeft' = opsLeft - 1
  /\ Settle([StopTask(Module) EXCEPT !.sc.up = FALSE], <<>>, Did("shutdown"))
  /\ UNCHANGED <<mainFrame, listing, contents, faultsLeft>>

\* The interval elapses: the scheduler submits a run of the job to the
\* event loop, where it waits its turn.
Fire ==
  /\ scheduler.up
  /\ JobId \in scheduler.jobs
  /\ ~scheduler.due
  /\ scheduler' = [scheduler EXCEPT !.due = TRUE]
  /\ UNCHANGED <<mainFrame, listing, contents, calls, hist, opsLeft, faultsLeft,
                 sync_status, active_sync_state>>

\* The submitted run of sync_job begins.
Tick ==
  /\ scheduler.up
  /\ scheduler.due
  /\ opsLeft > 0
  /\ opsLeft' = opsLeft - 1
  /\ SyncJob([Module EXCEPT !.sc.due = FALSE], <<>>, Did("tick"))
  /\ UNCHANGED mainFrame

MainNext ==
  \/ StartSync
  \/ StopSync
  \/ Logout
  \/ Shutdown
  \/ Fire
  \/ Tick

\* The remote states the application is run against: a library of k tracks,
\* or of one item without a track, against every small playlist of each
\* shape, or a user without the target playlist; a library of a page and
\* one track more against an empty playlist; and a playlist of a full page
\* whose last track is liked, with one liked track it lacks.
MainInputs ==
  \/ /\ likedLib \in {Range(1, k) : k \in 0..MaxTrack} \cup {<<NoTrack>>}
     /\ \/ /\ listing = Behind(0)
           /\ \E c \in {x \in SeqsUpTo(Tracks, MaxLen) : Canonical(x)} :
                contents = <<c>>
        \/ listing = <<>> /\ contents = <<>>
  \/ /\ likedLib = Range(1, LikedPage + 1)
     /\ listing = Behind(0)
     /\ contents = <<<<>>>>
  \/ /\ likedLib = <<ItemsPage, ItemsPage + 1>>
     /\ listing = Behind(0)
     /\ contents = <<Range(1, ItemsPage)>>

InitMain ==
  /\ MainInputs
  /\ EmptyLedger
  /\ NoListing
  /\ opsLeft = MaxOps + 1
  /\ faultsLeft = MaxFaults
  /\ ignored = {}
  /\ LocalInit

SpecMain == InitMain /\ [][MainNext]_vars

\* ---------------------------------------------------- reconcile: claims
\* liked.keys(): the ids of the library's items that have a track.
LikedIds == CollectIds(likedLib)

\* The reconcile run has returned, and no step of it failed.
SyncClean == op = "sync" /\ pc = "done" /\ ~err

\* The calls of one kind the invocation has issued, oldest first.
CallsNamed(name) == SelectSeq(calls, LAMBDA c : c.name = name)

UriTracks(uris) == [i \in 1..Len(uris) |-> TrackOf(uris[i])]

\* C1: when reconcile completes without a remote failure, the track ids of
\* the target playlist are the liked ids minus the caller's ignored set.
C1_PlaylistIsLikedMinusIgnored ==
  SyncClean => CollectIds(contents[playlist_id]) = LikedIds \ ignored

\* C2: a reconcile run that follows a failure-free reconcile run returns
\* synced_count 0, issues no remote add or remove call, and leaves the
\* playlist's track set as it found it.
C2_SecondRunChangesNothing ==
  (SyncClean /\ prevClean) =>
    /\ synced_count = 0
    /\ CallsNamed("add") = <<>>
    /\ CallsNamed("remove") = <<>>
    /\ playlist_id \in DOMAIN before
    /\ CollectIds(contents[playlist_id]) = CollectIds(before[playlist_id])

C2_Witness ==
  /\ SyncClean /\ prevClean
  /\ Len(contents[playlist_id]) > ChunkSize

\* C3: no remote add call of reconcile carries a track of the ignored set.
C3_IgnoredNeverAdded ==
  \A i \in 1..Len(calls) :
    calls[i].name = "add" =>
      \A j \in 1..Len(calls[i].items) : TrackOf(calls[i].items[j]) \notin ignored

\* C5: a completed head-insertion add of k > 0 uris issued ceil(k/100) add
\* calls; the call sent j-th from last carries the j-th consecutive
\* 100-element slice of the list, so the last slice is sent first.
C5_ChunksSentLastFirst ==
  (SyncClean /\ tracks_to_add_uris /= <<>>) =>
    LET adds == CallsNamed("add")
        k == Len(tracks_to_add_uris)
        m == Len(adds)
    IN  /\ m * 100 >= k /\ (m - 1) * 100 < k
        /\ \A j \in 1..m :
             adds[m + 1 - j].items =
               [i \in 1..(IF j < m THEN 100 ELSE k - (m - 1) * 100) |->
                  tracks_to_add_uris[(j - 1) * 100 + i]]

C5_Witness ==
  /\ SyncClean
  /\ Len(tracks_to_add_uris) = 250
  /\ Len(CallsNamed("add")) = 3
  /\ Len(calls[Len(calls)].items) = 100
  /\ Len(calls[Len(calls) - 2].items) = 50

\* C6: after a completed head-insertion add of uris onto a playlist with
\* contents P, the playlist is uris followed by P.
C6_HeadIsUrisInOrder ==
  (SyncClean /\ tracks_to_add_uris /= <<>>) =>
    contents[playlist_id] = UriTracks(tracks_to_add_uris) \o base

C6_Witness ==
  /\ SyncClean
  /\ Len(tracks_to_add_uris) > 2 * ChunkSize
  /\ base /= <<>>
  /\ contents[playlist_id][1] = TrackOf(tracks_to_add_uris[1])

\* ------------------------------------------ delete-last-N and undo: claims
\* The invocation that is running or has last returned.
Last == hist[Len(hist)]

\* The tracks the remote listed for a playlist with these items.
TrackCount(items) == Len(ResolvedTracks(items))

\* C4: every remote mutation call (add or remove) of any operation carries
\* at most 100 tracks.
C4_MutationsCarryAtMostHundred ==
  \A i \in 1..Len(calls) :
    calls[i].name \in {"add", "remove"} => Len(calls[i].items) <= 100

\* C7, as the specification states it: delete-last-N with n above the
\* playlist's track count returns success=false having issued no remote call.
C7_TooManyIssuesNoRemoteCall ==
  (hist /= <<>> /\ Last.op = "delete" /\ Last.done
     /\ Last.num > TrackCount(Last.pre)) =>
    /\ ~Last.success
    /\ calls = <<>>

\* C7, as the code has it: delete-last-N with n above the playlist's track
\* count returns success=false having issued one remote call, the fetch of
\* the playlist's items, and no remote mutation; the playlist and the ledger
\* are as they were.
C7_TooManyIssuesNoMutation ==
  (hist /= <<>> /\ Last.op = "delete" /\ Last.num > TrackCount(Last.pre)) =>
    /\ pc \in {"fetch", "done"}
    /\ pc = "done" =>
         /\ Last.done /\ ~Last.success /\ ~success
         /\ Len(calls) = 1
         /\ calls[1].name = "playlist_items"
    /\ CallsNamed("remove") = <<>>
    /\ CallsNamed("add") = <<>>
    /\ contents[playlist_id] = Last.pre
    /\ ledger = Last.store

C7_Witness ==
  /\ hist /= <<>> /\ Last.op = "delete" /\ Last.done /\ ~Last.raised
  /\ Last.num > TrackCount(Last.pre)
  /\ TrackCount(Last.pre) > 0
  /\ calls /= <<>>

\* C8: delete-last-N with n <= 0 returns success=false at once: no remote
\* call, no ledger write, the playlist unchanged.
C8_NonPositiveCountNotAttempted ==
  (hist /= <<>> /\ Last.op = "delete" /\ Last.num <= 0) =>
    /\ pc = "done"
    /\ Last.done /\ ~Last.success /\ ~success
    /\ calls = <<>>
    /\ ledger = Last.store
    /\ contents[playlist_id] = Last.pre

C8_Witness ==
  /\ hist /= <<>> /\ Last.op = "delete" /\ Last.done
  /\ Last.num <= 0
  /\ Last.pre /= <<>>
  /\ ledger /= <<>>

\* A playlist of distinct tracks.
DistinctTracks(items) == IsDistinct(items) /\ ToSet(items) \subseteq Tracks

\* C9: on a playlist of distinct tracks with no earlier batch for the pair,
\* the undo that follows a successful delete-last-N and does not raise puts
\* the n tracks back (restored count n, the track set that of before the
\* deletion), and an undo right after it that does not raise finds no batch
\* and reports nothing to undo.
C9_UndoRestoresThenNothingToUndo ==
  \A i \in 1..(Len(hist) - 1) :
    LET d == hist[i]
        u == hist[i + 1]
    IN  (/\ d.op = "delete" /\ d.success
         /\ d.prior = NoBatch /\ DistinctTracks(d.pre)
         /\ u.op = "undo" /\ u.done /\ ~u.raised) =>
          /\ u.success
          /\ u.count = d.num
          /\ ToSet(u.post) = ToSet(d.pre)
          /\ (/\ i + 2 <= Len(hist)
              /\ hist[i + 2].op = "undo"
              /\ hist[i + 2].done /\ ~hist[i + 2].raised) =>
                /\ ~hist[i + 2].success
                /\ hist[i + 2].batch = NoBatch

\* C10: an undo never retrieves a batch older than one a delete-last-N has
\* recorded for the pair.
C10_OlderBatchNeverRetrieved ==
  \A i \in 1..Len(hist) :
    (hist[i].op = "undo" /\ hist[i].batch /= NoBatch) =>
      \A j \in 1..(i - 1) :
        hist[j].op = "delete" => hist[j].batch <= hist[i].batch

\* ------------------------------------------------------- ledger: claims
\* C11: with the store reachable, a latest(user, playlist) that directly
\* follows record(user, playlist, tracks, b) returns batch b and the tracks
\* in the order they were passed to record.
C11_LatestReturnsRecordedInOrder ==
  \A i \in 1..(Len(hist) - 1) :
    LET r == hist[i]
        l == hist[i + 1]
    IN  (/\ r.op = "record" /\ r.done /\ ~r.raised /\ ~r.unreachable
         /\ r.songs /= <<>>
         /\ l.op = "latest" /\ l.done /\ ~l.raised /\ ~l.unreachable
         /\ l.pid = r.pid) =>
          /\ l.batch = r.batch
          /\ l.result = r.songs

\* The rows of a table that are not of batch b.
RowsNotOf(rows, b) == SelectSeq(rows, LAMBDA r : r.batch_id /= b)

\* C12: a clear(b) that returns without raising leaves the ledger the rows
\* it had less those of batch b, which is the ledger unchanged when b has no
\* row; and no latest that follows it returns batch b.
C12_ClearRemovesExactlyTheBatch ==
  \A i \in 1..Len(hist) :
    (hist[i].op = "clear" /\ hist[i].done /\ ~hist[i].raised) =>
      /\ i = Len(hist) => ledger = RowsNotOf(hist[i].store, hist[i].batch)
      /\ \A j \in (i + 1)..Len(hist) :
           (hist[j].op = "latest" /\ hist[j].done) =>
             hist[j].batch /= hist[i].batch

\* -------------------------------- delete-last-N and undo: failure handling
\* C13: a delete-last-N whose record step finds the store unreachable issues
\* no remote removal call, takes no track from the playlist and returns
\* success=false.
C13_UnreachableStoreAbortsDelete ==
  (hist /= <<>> /\ Last.op = "delete" /\ Last.unreachable) =>
    /\ CallsNamed("remove") = <<>>
    /\ contents[playlist_id] = Last.pre
    /\ Last.done => ~Last.success

\* The last n elements of s, for n <= Len(s).
Trailing(s, n) == [i \in 1..n |-> s[Len(s) - n + i]]

\* C14: when the store is reachable, from the moment delete-last-N is about
\* to issue its removal call the ledger holds the new batch, its rows the
\* trailing n tracks of the playlist in playlist order; a removal that then
\* fails leaves the batch there and returns success=false.
C14_RecordedBeforeRemoved ==
  (/\ hist /= <<>> /\ Last.op = "delete" /\ ~Last.unreachable
   /\ (pc = "remove" \/ CallsNamed("remove") /= <<>>)) =>
    /\ batch_id /= NoBatch
    /\ Last.batch = batch_id
    /\ LastBatchId(ledger, UserId, playlist_id) = batch_id
    /\ BatchSongs(ledger, batch_id) =
         Trailing(ResolvedTracks(Last.pre), Last.num)
    /\ (Last.done /\ Last.raised) => (~Last.success /\ ~success)

C14_Witness ==
  /\ hist /= <<>> /\ Last.op = "delete" /\ ~Last.unreachable
  /\ Last.done /\ Last.raised
  /\ CallsNamed("remove") /= <<>>
  /\ Len(BatchSongs(ledger, batch_id)) = 2
  /\ contents[playlist_id] = Last.pre

\* C15: an undo that has retrieved a batch and has not returned success
\* (its re-add failed, its clear raised, or it stands before the re-add or
\* between the re-add and the clear) has left the batch in the ledger, where
\* latest still returns it; and the batch is gone from the ledger only when
\* the re-add has been issued and has put the tracks at the playlist's end.
C15_BatchKeptUntilReAdded ==
  (hist /= <<>> /\ Last.op = "undo" /\ Last.batch /= NoBatch) =>
    /\ ~(Last.done /\ Last.success) =>
         /\ LastBatchId(ledger, UserId, playlist_id) = Last.batch
         /\ BatchSongs(ledger, Last.batch) /= <<>>
    /\ BatchSongs(ledger, Last.batch) = <<>> =>
         /\ CallsNamed("add") /= <<>>
         /\ contents[playlist_id] =
              Last.pre \o [i \in 1..Len(songs_to_restore) |-> songs_to_restore[i].id]

C15_Witness ==
  /\ hist /= <<>> /\ Last.op = "undo" /\ Last.batch /= NoBatch
  /\ Last.done /\ Last.raised
  /\ CallsNamed("add") /= <<>>
  /\ contents[playlist_id] = Last.pre
  /\ LastBatchId(ledger, UserId, playlist_id) = Last.batch

\* The table has no row of the pair (UserId, pid).
NoRowOfPair(rows, pid) ==
  \A i \in 1..Len(rows) : rows[i].user_id /= UserId \/ rows[i].playlist_id /= pid

\* C16: an undo on a pair that has no recorded batch issues no remote
\* mutation and leaves the playlist and the ledger as they were; when it
\* returns without having raised, it is by the "nothing to undo" report, from
\* outside the except branches.
C16_NothingToUndo ==
  (hist /= <<>> /\ Last.op = "undo" /\ NoRowOfPair(Last.store, playlist_id)) =>
    /\ pc \in {"get", "done"}
    /\ CallsNamed("add") = <<>>
    /\ CallsNamed("remove") = <<>>
    /\ contents[playlist_id] = Last.pre
    /\ ledger = Last.store
    /\ (Last.done /\ ~Last.raised) =>
         /\ ~err
         /\ ~Last.success /\ ~success
         /\ Head(logs) = "nothing to undo"

C16_Witness ==
  /\ hist /= <<>> /\ Last.op = "undo" /\ NoRowOfPair(Last.store, playlist_id)
  /\ Last.done /\ ~Last.raised /\ ~Last.unreachable
  /\ Last.store /= <<>>
  /\ Last.pre /= <<>>
  /\ Head(logs) = "nothing to undo"

\* ------------------------------------------- reconcile: failure handling
\* C17: a reconcile run that has no playlist id has called nothing but the
\* playlist lookup and creation; when it has returned, finding or creating
\* the playlist failed, and the run appended a log entry for it and
\* returned synced_count 0.
C17_NoPlaylistNoFurtherCall ==
  (op = "sync" /\ playlist_id = NoPlaylist) =>
    /\ pc \in {"find", "create", "done"}
    /\ \A i \in 1..Len(calls) :
         calls[i].name \in {"user_playlists", "user_playlist_create"}
    /\ pc = "done" =>
         /\ err
         /\ synced_count = 0
         /\ Len(logs) >= 2
         /\ Head(logs) \in {"api error", "halting"}

C17_Witness ==
  /\ op = "sync" /\ pc = "done" /\ playlist_id = NoPlaylist
  /\ calls /= <<>>
  /\ calls[Len(calls)].name = "user_playlist_create"
  /\ likedLib /= <<>>

\* C18: a delete-last-N or undo one of whose steps failed (a call raised, or
\* the store could not be reached) returns success=false, with a log entry
\* appended after the opening one.
C18_FailedStepMeansNoSuccess ==
  (hist /= <<>> /\ Last.done /\ (Last.raised \/ Last.unreachable)) =>
    /\ ~Last.success
    /\ ~success
    /\ Len(logs) >= 2

\* C19: a failure-free reconcile run that follows a run halted by a remote
\* failure, the library unchanged, leaves the playlist's track-id set equal
\* to the liked set.
C19_RerunAfterFailureConverges ==
  (SyncClean /\ runs >= 2 /\ ~prevClean) =>
    CollectIds(contents[playlist_id]) = LikedIds

\* The halted run had sent some of the chunks of a long add.
C19_Witness ==
  /\ SyncClean /\ runs >= 2 /\ ~prevClean
  /\ Len(likedLib) > 2 * ChunkSize
  /\ playlist_id \in DOMAIN before
  /\ Len(before[playlist_id]) >= ChunkSize \div 2
  /\ CollectIds(before[playlist_id]) \subseteq LikedIds
  /\ CollectIds(before[playlist_id]) /= LikedIds
  /\ synced_count > 0

\* The rows of batch b in a table.
RowsOf(rows, b) == SelectSeq(rows, LAMBDA r : r.batch_id = b)

\* C20: of the batch of any record call, running or ended, the ledger holds
\* either no row or one row per track, in the order given and all tagged
\* with the batch id; a call that ended by an exception, or without a
\* connection, has left no row, and one that returned after its commit has
\* left them all.
C20_RecordAllOrNothing ==
  \A i \in 1..Len(hist) :
    hist[i].op = "record" =>
      LET r == hist[i]
          all == [k \in 1..Len(r.songs) |-> Row(r.pid, r.songs[k], r.batch, r.at)]
          mine == RowsOf(ledger, r.batch)
      IN  /\ mine = <<>> \/ mine = all
          /\ (~r.done \/ r.raised \/ r.unreachable) => mine = <<>>
          /\ (i = Len(hist) /\ r.done /\ ~r.raised /\ ~r.unreachable) => mine = all

\* A call that failed after one of its two inserts.
C20_Witness ==
  /\ hist /= <<>>
  /\ hist[Len(hist)].op = "record"
  /\ hist[Len(hist)].done /\ hist[Len(hist)].raised
  /\ Len(hist[Len(hist)].songs) = 2
  /\ Len(hist[Len(hist)].result) = 1
  /\ ledger /= <<>>
  /\ RowsOf(ledger, hist[Len(hist)].batch) = <<>>

\* ------------------------------------------- delete-last-N: what is removed
\* C21: a successful delete-last-N of n on a playlist of m >= n entries
\* leaves the playlist its first m - n entries in their order and returns
\* deleted_count n, and the batch it recorded holds the trailing n tracks in
\* playlist order; also when a track occurs more than once in the playlist.
C21_RemovesExactlyTheTrailing ==
  (/\ hist /= <<>> /\ Last.op = "delete" /\ Last.done /\ Last.success
   /\ Last.num <= Len(Last.pre)) =>
    /\ Last.post = SubSeq(Last.pre, 1, Len(Last.pre) - Last.num)
    /\ count = Last.num
    /\ BatchSongs(ledger, batch_id) =
         Trailing(ResolvedTracks(Last.pre), Last.num)

\* ------------------------------------------ reconcile: racing invocations
\* What one failure-free reconcile run makes of a playlist: the unliked
\* tracks gone, the liked tracks it lacked at its head.
AfterOneRun(lib, items) ==
  LET d == CollectLiked(lib)
      ids == CollectIds(items)
  IN  UriTracks(ToAddUris(d, ids)) \o RemoveAll(items, Ascending(ToRemoveIds(d, ids)))

\* How often x occurs in s.
Occurrences(s, x) == Cardinality({i \in 1..Len(s) : s[i] = x})

\* Two invocations, and no more, have run on one playlist that existed when
\* the behaviour began, and both have returned without a failure.
BothClean ==
  /\ SyncClean
  /\ parked.op = "sync" /\ parked.pc = "done" /\ ~parked.err
  /\ runs = 2
  /\ playlist_id = parked.playlist_id
  /\ playlist_id \in DOMAIN origin

\* C22: when two reconcile invocations on one playlist, interleaved at any
\* point, have both completed, the library unchanged, the playlist is what a
\* single run makes of it, and no track is in it more often than after one
\* run.
C22_RacingAddsIdempotent ==
  BothClean =>
    /\ contents[playlist_id] = AfterOneRun(likedLib, origin[playlist_id])
    /\ \A t \in Tracks :
         Occurrences(contents[playlist_id], t)
           <= Occurrences(AfterOneRun(likedLib, origin[playlist_id]), t)

\* ------------------------------------- reconcile: a failed mutation call
\* The target playlist as the run found it: empty when the run created it.
Found == IF playlist_id \in DOMAIN before THEN before[playlist_id] ELSE <<>>

\* The playlist after the remote has applied the mutation calls cs, in order.
RECURSIVE Applied(_, _)
Applied(items, cs) ==
  IF cs = <<>> THEN items
  ELSE Applied(IF Head(cs).name = "remove" THEN RemoveAll(items, Head(cs).items)
               ELSE IF Head(cs).name = "add"
                    THEN InsertAtHead(items, Head(cs).items)
                    ELSE items,
               Tail(cs))

\* The reconcile run failed at a remote remove or add call, its last call.
MutationFailed ==
  /\ op = "sync" /\ err
  /\ calls /= <<>>
  /\ calls[Len(calls)].name \in {"remove", "add"}

\* C23: when a remote remove or add call of reconcile fails, the run has
\* halted at it: the run has returned, the failed call is the last it issued
\* (no later chunk, and no add after a failed remove), the playlist is what
\* the calls before it made of it, no call undoing them, and the newest log
\* entry records the failure.
C23_FailedMutationHalts ==
  MutationFailed =>
    /\ pc = "done"
    /\ Head(logs) = "api error"
    /\ synced_count = 0
    /\ contents[playlist_id] = Applied(Found, SubSeq(calls, 1, Len(calls) - 1))
    /\ calls[Len(calls)].name = "remove" =>
         /\ CallsNamed("add") = <<>>
         /\ Len(CallsNamed("remove")) <= Len(Chunks(tracks_to_remove_ids))
         /\ calls[Len(calls)].items =
              Chunks(tracks_to_remove_ids)[Len(CallsNamed("remove"))]
    /\ calls[Len(calls)].name = "add" =>
         /\ Len(CallsNamed("remove")) = Len(Chunks(tracks_to_remove_ids))
         /\ Len(CallsNamed("add")) <= Len(AddOrder(tracks_to_add_uris))
         /\ calls[Len(calls)].items =
              AddOrder(tracks_to_add_uris)[Len(CallsNamed("add"))]

\* The second chunk of an add failed, after two chunks of removals and one
\* of additions had been applied.
C23_Witness ==
  /\ MutationFailed
  /\ pc = "done"
  /\ Len(CallsNamed("remove")) = 2
  /\ Len(CallsNamed("add")) = 2
  /\ Len(AddOrder(tracks_to_add_uris)) = 2
  /\ contents[playlist_id] /= Found
  /\ Len(contents[playlist_id]) = ChunkSize

\* ----------------------------------------------- reconcile: order of steps
\* The place of a remote call in find_or_create_playlist, fetch liked, fetch
\* playlist, remove, add.
StepOf(name) ==
  CASE name = "user_playlists" -> 1
    [] name = "user_playlist_create" -> 2
    [] name = "current_user_saved_tracks" -> 3
    [] name = "playlist_items" -> 4
    [] name = "remove" -> 5
    [] name = "add" -> 6

\* C24: the remote calls of a reconcile run are in the order playlist
\* lookup, playlist creation, fetch of the liked tracks, fetch of the
\* playlist, removals, additions; each of the first four is made at most
\* once; a removal or addition comes only after both fetches have returned,
\* the liked tracks' before the playlist's; and every removal precedes every
\* addition.
C24_StepsInOrder ==
  op = "sync" =>
    /\ \A i, j \in 1..Len(calls) :
         i < j => /\ StepOf(calls[i].name) <= StepOf(calls[j].name)
                  /\ StepOf(calls[i].name) <= 4 =>
                       StepOf(calls[i].name) < StepOf(calls[j].name)
    /\ \A i \in 1..Len(calls) :
         StepOf(calls[i].name) >= 5 =>
           \E a, b \in 1..(i - 1) :
             /\ a < b
             /\ calls[1].name = "user_playlists"
             /\ calls[a].name = "current_user_saved_tracks"
             /\ calls[b].name = "playlist_items"
    /\ pc \in {"remove", "removing", "add", "adding", "finish"} =>
         /\ CallsNamed("current_user_saved_tracks") /= <<>>
         /\ CallsNamed("playlist_items") /= <<>>

\* A run that removed and added, more than a chunk of each.
C24_Witness ==
  /\ SyncClean
  /\ Len(CallsNamed("remove")) >= 2
  /\ Len(CallsNamed("add")) >= 2
  /\ calls[Len(calls)].name = "add"
  /\ calls[5].name = "remove"

\* --------------------------------------------- paginated collector: claims
\* The ids of the items, over all pages, that have a resolvable track.
ResolvableIds == CollectIds(Flatten(pages))

\* C25: a collector is never left by an exception unless a request failed;
\* it asks for no page twice; once it has begun it ends; and when it
\* returns it has asked for every page once and holds the ids of the items
\* of all pages that have a resolvable track, and no other id.
C25_CollectorDrainsEveryPageOnce ==
  /\ [](\A k \in 1..Len(pages) : fetched[k] <= 1)
  /\ [](pc = "raised" => faultsLeft < MaxFaults)
  /\ [](pc = "done" =>
          /\ \A k \in 1..Len(pages) : fetched[k] = 1
          /\ op = "liked" =>
               /\ Keys(liked_tracks) = ResolvableIds
               /\ liked_tracks = CollectLiked(Flatten(pages))
          /\ op = "playlist" => playlist_track_ids = ResolvableIds)
  /\ [](pc = "page" => <>(pc \in {"done", "raised"}))

\* Three pages drained, an item without a track on the first of them and a
\* track on the last.
C25_Witness ==
  /\ pc = "done" /\ op = "liked"
  /\ Len(pages) = 3
  /\ NoTrack \in ToSet(pages[1])
  /\ pages[3] /= <<>>
  /\ ToSet(pages[3]) \subseteq Keys(liked_tracks)
  /\ fetched = <<1, 1, 1>>

\* ------------------------------------------- reconcile: the target playlist
\* The playlists of the user that bear the target's name.
Targets(l) == {i \in 1..Len(l) : l[i].name = TARGET_PLAYLIST_NAME}

\* The user had a playlist of the target's name when the behaviour began.
HadTarget ==
  \E i \in 1..Len(listing) :
    listing[i].name = TARGET_PLAYLIST_NAME /\ listing[i].id \in DOMAIN origin

\* C26: reconcile asks for no playlist to be created when the user has one
\* of the target's name, however many playlists the user has; the user never
\* has two playlists of that name, and has one after every run that ended
\* without failure.
C26_NeverASecondTarget ==
  op = "sync" =>
    /\ HadTarget => CallsNamed("user_playlist_create") = <<>>
    /\ Cardinality(Targets(listing)) <= 1
    /\ SyncClean => Cardinality(Targets(listing)) = 1

\* ----------------------------------------------- undo: the restored batch
\* C27: when an undo has returned success=true, the batch it restored has no
\* row left in the ledger, and no later undo retrieves that batch; also when
\* the store became unreachable between the retrieval and the clear.
C27_RestoredBatchIsGone ==
  \A i \in 1..Len(hist) :
    (hist[i].op = "undo" /\ hist[i].done /\ hist[i].success) =>
      /\ i = Len(hist) => BatchSongs(ledger, hist[i].batch) = <<>>
      /\ \A j \in (i + 1)..Len(hist) :
           hist[j].op = "undo" => hist[j].batch /= hist[i].batch

\* ------------------------------------------------------- main.py: claims
\* A run of sync_job that made its remote calls and took no except branch.
FullRun(r) == r.ran /\ ~r.failed

\* C28: with the liked tracks and the playlist changed by nothing but
\* sync_job, every run of sync_job after its first complete run that is
\* itself complete issues no add call and leaves synced_count as the run
\* before it left it, whatever the lengths of the playlist and of the
\* library.
C28_LaterTicksAddNothing ==
  \A j \in 2..Len(hist) :
    (FullRun(hist[j]) /\ \E i \in 1..(j - 1) : FullRun(hist[i])) =>
      /\ hist[j].added = 0
      /\ hist[j].synced = hist[j - 1].synced

\* C29: after any sequence of start, stop, logout, shutdown and runs of
\* sync_job, is_running is true exactly when one sync job is registered and
\* token_info and user_id are set; a start made while running has registered
\* no second job; and a run of sync_job begun after a stop has issued no
\* remote call.
C29_RunningIffOneJobAndCredentials ==
  /\ sync_status.is_running <=>
       /\ Cardinality(scheduler.jobs) = 1
       /\ active_sync_state.token_info /= NoToken
       /\ active_sync_state.user_id /= NoUser
  /\ sync_status.is_running <=> active_sync_state.job = JobId
  /\ (hist /= <<>> /\ Last.op = "start" /\ Last.was_running) =>
       /\ scheduler.jobs = {JobId}
       /\ calls = <<>>
  /\ (hist /= <<>> /\ Last.op = "tick" /\ ~Last.was_running) =>
       /\ calls = <<>>
       /\ ~Last.ran
       /\ ~sync_status.is_running

\* A run of the job that was submitted before a stop and begins after it.
C29_Witness ==
  /\ Len(hist) = 3
  /\ hist[1].op = "start" /\ ~hist[1].failed /\ hist[1].ran
  /\ hist[2].op \in {"stop", "logout"} /\ hist[2].was_running
  /\ hist[3].op = "tick" /\ ~hist[3].was_running
  /\ scheduler.jobs = {}
  /\ ~scheduler.due

====
